---- MODULE Spec2Model ----
(***************************************************************************)
(* Mesh partitioning of a SimplexMesh (src/src/mesh_partition.rs):         *)
(* partition_scotch, partition_metis and partition_quality, together with  *)
(* the mesh collaborators they call (the connectivity caches).             *)
(*                                                                         *)
(* Conventions.  Element indices are 0-based as in the source; TLA+        *)
(* sequences are 1-based, so etags[e + 1] is the tag of element e.         *)
(* Option<T> is a sequence of length 0 (None) or 1 (Some).                 *)
(* A Result is the record ret of the last call: status "Ok" or "Err"; a    *)
(* panic (a failed unwrap()) is status "Panic" and ends the program.       *)
(***************************************************************************)
EXTENDS Integers, Sequences, FiniteSets, TLC

\* ------------------------------------------------------------- bounds
\* Largest number of elements of a strip mesh.
MaxElems == 3
\* Largest ordinary partition count a caller passes.
MaxParts == 4
\* Element tags present before any partition call lie in 1..MaxTag.
MaxTag == 2

\* ------------------------------------------------- integer types
\* Idx (n_parts: Idx) is an unsigned integer type, scotch::Num and
\* metis::Idx are signed integer types, Tag is a signed integer type.  All
\* are declared outside mesh_partition.rs.  The widths of Idx and of the
\* backend integer are scaled down so that a mesh of MaxElems elements has
\* offsets that do not fit.
IdxBits == 3
NumBits == 3
TagBits == 16

IdxMax == 2 ^ IdxBits - 1
NumMax == 2 ^ (NumBits - 1) - 1
TagMax == 2 ^ (TagBits - 1) - 1

\* ------------------------------------------------------------ Option
None == << >>
Some(x) == << x >>
IsNone(o) == Len(o) = 0
IsSome(o) == Len(o) = 1
Unwrap(o) == o[1]

VARIABLES
    scotch,          \* cfg(feature = "scotch")
    metis,           \* cfg(feature = "metis")
    deterministic,   \* the backend library returns the same answer for the same request
    mesh,            \* the mesh's elements and faces (not changed by this file)
    etags,           \* self.etags
    elem_to_elems,   \* self.elem_to_elems : Option<CSRGraph>
    faces_to_elems,  \* self.faces_to_elems : Option<map face -> elements>
    ret              \* the last call and what it returned

vars == << scotch, metis, deterministic, mesh, etags, elem_to_elems, faces_to_elems, ret >>

\* ------------------------------------------------------------ meshes
\* A strip of n triangles: element i shares a face with element i + 1.  Every
\* element has one boundary face, the two end elements have one more.
StripFaces(n) ==
    IF n = 0 THEN << >>
    ELSE [i \in 1..n |-> << i - 1 >>]
         \o << << 0 >>, << n - 1 >> >>
         \o [i \in 1..(n - 1) |-> << i - 1, i >>]

\* A mesh of two parts that do not touch: a strip of two triangles and a
\* single triangle.
SplitFaces == StripFaces(2) \o << << 2 >>, << 2 >>, << 2 >> >>

Meshes ==
    { [n_elems |-> n, faces |-> StripFaces(n)] : n \in 0..MaxElems }
    \cup { [n_elems |-> 3, faces |-> SplitFaces] }

\* self.n_elems()
n_elems == mesh.n_elems

\* ------------------------------------------- connectivity collaborators
\* The elements that share a face with element i.
Neighbours(faces, i) ==
    UNION { { faces[f][1], faces[f][2] } \ { i } :
            f \in { g \in 1..Len(faces) :
                        Len(faces[g]) = 2 /\ i \in { faces[g][1], faces[g][2] } } }

RECURSIVE SortedSeq(_)
SortedSeq(S) ==
    IF S = {} THEN << >>
    ELSE LET m == CHOOSE x \in S : \A y \in S : x <= y
         IN << m >> \o SortedSeq(S \ { m })

RECURSIVE Indices(_, _, _)
Indices(faces, i, n) ==
    IF i >= n THEN << >>
    ELSE SortedSeq(Neighbours(faces, i)) \o Indices(faces, i + 1, n)

\* The dual graph in compressed form: ptr has n + 1 offsets, indices the
\* neighbours of each element, concatenated.
DualGraph(m) ==
    [ptr |-> [k \in 1..(m.n_elems + 1) |-> Len(Indices(m.faces, 0, k - 1))],
     indices |-> Indices(m.faces, 0, m.n_elems)]

\* --------------------------------------------------- integer conversions
\* n_parts as i32 / n_parts as metis::Idx: a wrapping cast.
AsNum(x) ==
    LET r == x % (2 ^ NumBits)
    IN IF r > NumMax THEN r - 2 ^ NumBits ELSE r

\* x.try_into(): Some(x) when x fits the signed backend integer.
TryInto(x) == IF x >= -NumMax - 1 /\ x <= NumMax THEN Some(x) ELSE None

\* .map(|x| x.try_into().unwrap()).collect(): None stands for the panic of the
\* first unwrap() that fails.
ConvertAll(s) ==
    IF \E i \in 1..Len(s) : IsNone(TryInto(s[i])) THEN None
    ELSE Some([i \in 1..Len(s) |-> Unwrap(TryInto(s[i]))])

\* i as Tag: a wrapping cast.
AsTag(i) ==
    LET r == i % (2 ^ TagBits)
    IN IF r > TagMax THEN r - 2 ^ TagBits ELSE r

\* TagOf with the offset forgotten.
TagOfNoOffset(i) == AsTag(i)

\* |i| i as Tag + 1   (labels of this model stay below TagMax, where the
\* addition cannot overflow)
TagOf(i) == AsTag(i) + 1

\* AssignTags adding the labels to the tags in place instead of replacing them.
AssignTagsAccumulate(partition) == [i \in 1..Len(partition) |-> etags[i] + partition[i]]

\* partition.iter().copied().map(|i| i as Tag + 1).collect()
AssignTags(partition) == [i \in 1..Len(partition) |-> TagOf(partition[i])]

\* self.etags().any(|t| t != 1)
AnyTagNot1(tags) == \E i \in 1..Len(tags) : tags[i] /= 1

\* vec![0; self.n_elems() as usize]
Zeros(n) == [i \in 1..n |-> 0]

\* ------------------------------------------------------------- quality
\* IsCut with the comparison of the tags forgotten.
IsCutIgnoringTags(v, tags) == Len(v) = 2

\* |(_, v)| v.len() == 2 && self.etags[v[0]] != self.etags[v[1]]
IsCut(v, tags) == Len(v) = 2 /\ tags[v[1] + 1] /= tags[v[2] + 1]

\* f2e.iter().filter(..).count()
RECURSIVE CountCut(_, _)
CountCut(f2e, tags) ==
    IF f2e = << >> THEN 0
    ELSE (IF IsCut(Head(f2e), tags) THEN 1 ELSE 0) + CountCut(Tail(f2e), tags)

RECURSIVE Gcd(_, _)
Gcd(a, b) == IF b = 0 THEN a ELSE Gcd(b, a % b)

\* a as f64 / b as f64: the quotient as a fraction in lowest terms, so that
\* equal quotients are equal values; 0 / 0 is NaN, a / 0 is infinite.
NaN == << 0, 0 >>
FDiv(a, b) ==
    IF b = 0 THEN (IF a = 0 THEN NaN ELSE << 1, 0 >>)
    ELSE << a \div Gcd(a, b), b \div Gcd(a, b) >>

\* FaceCount leaving the boundary faces out.
InteriorFaceCount(f2e) == Cardinality({ i \in 1..Len(f2e) : Len(f2e[i]) = 2 })

\* f2e.len()
FaceCount(f2e) == Len(f2e)

\* Ok(n as f64 / f2e.len() as f64)
QualityValue(f2e, tags) == FDiv(CountCut(f2e, tags), FaceCount(f2e))

\* ------------------------------------------------------------- results
ErrScotchDisabled == "the scotch feature is not enabled"
ErrMetisDisabled == "the metis feature is not enabled"
ErrNoFaceToElems == "face to element connectivity not computed"
\* the error of scotch's compute(), converted by `?`
ErrScotch == "scotch: mapping failed"
PanicUnwrapE2e == "panic: elem_to_elems.as_ref().unwrap()"
PanicTryInto == "panic: try_into().unwrap()"
PanicScotchGraph == "panic: Graph::build(..).unwrap() / graph.check().unwrap()"
PanicMetis == "panic: part_recursive(..).unwrap()"

PartitionOps == { "partition_scotch", "partition_metis" }

\* What a call leaves behind for the caller (and for the properties below):
\* backend is what the library answered, built whether this call ran
\* compute_elem_to_elems, graph the dual graph the library was given, warned
\* whether "Erase the element tags" was logged, repeat whether this call
\* succeeded right after a successful call of the same operation with the
\* same n_parts.
Ret(op, n_parts, status, err, val, backend, built, graph, warned, repeat) ==
    [op |-> op, n_parts |-> n_parts, status |-> status, err |-> err, val |-> val,
     backend |-> backend, built |-> built, graph |-> graph, warned |-> warned,
     repeat |-> repeat]

PlainRet(op, status, err, val) ==
    Ret(op, 0, status, err, val, None, FALSE, None, FALSE, FALSE)

\* A panic ends the program: nothing is called after it.
Running == ret.status /= "Panic"

\* ---------------------------------------------------- backend libraries
\* The libraries are outside this repository.  A request with k >= 1 parts is
\* answered by one label in 0..k-1 per element or by an error; a request with
\* k <= 0 parts by an error or by the label buffer as it was passed (zeros).
LabelVectors(k, n) == IF k >= 1 THEN [1..n -> 0..(k - 1)] ELSE { Zeros(n) }

BackendOk(part) == [kind |-> "ok", part |-> part]
BackendError == [kind |-> "error", part |-> << >>]
GraphError == [kind |-> "graph_error", part |-> << >>]

LibraryAnswers(op, k, n) ==
    { BackendOk(p) : p \in LabelVectors(k, n) }
    \cup { BackendError }
    \cup (IF op = "partition_scotch" THEN { GraphError } ELSE {})

\* A deterministic library repeats its answer when the request is the one of
\* the call before (the dual graph of a mesh does not change here).
BackendAnswers(op, n_parts, n) ==
    IF deterministic /\ ret.op = op /\ ret.n_parts = n_parts /\ IsSome(ret.backend)
    THEN { Unwrap(ret.backend) }
    ELSE LibraryAnswers(op, AsNum(n_parts), n)

\* -------------------------------------------------- mesh collaborators
\* NeedsBuild ignoring the cache.
NeedsBuildAlways(e2e) == TRUE

\* self.elem_to_elems.is_none()
NeedsBuild(e2e) == IsNone(e2e)

\* self.compute_elem_to_elems(): populates the cache, nothing else.
ComputedElemToElems == Some(DualGraph(mesh))

compute_elem_to_elems ==
    /\ Running
    /\ elem_to_elems' = ComputedElemToElems
    /\ ret' = PlainRet("compute_elem_to_elems", "Ok", "", None)
    /\ UNCHANGED << scotch, metis, deterministic, mesh, etags, faces_to_elems >>

clear_elem_to_elems ==
    /\ Running
    /\ elem_to_elems' = None
    /\ ret' = PlainRet("clear_elem_to_elems", "Ok", "", None)
    /\ UNCHANGED << scotch, metis, deterministic, mesh, etags, faces_to_elems >>

compute_face_to_elems ==
    /\ Running
    /\ faces_to_elems' = Some(mesh.faces)
    /\ ret' = PlainRet("compute_face_to_elems", "Ok", "", None)
    /\ UNCHANGED << scotch, metis, deterministic, mesh, etags, elem_to_elems >>

\* ----------------------------------------------------- partition_scotch
\* partition_scotch_disabled erasing the tags before it fails.
partition_scotch_disabled_erasing(n_parts) ==
    /\ ret' = Ret("partition_scotch", n_parts, "Err", ErrScotchDisabled, None,
                  None, FALSE, None, FALSE, FALSE)
    /\ etags' = [i \in 1..Len(etags) |-> 1]
    /\ UNCHANGED elem_to_elems

\* #[cfg(not(feature = "scotch"))]
partition_scotch_disabled(n_parts) ==
    /\ ret' = Ret("partition_scotch", n_parts, "Err", ErrScotchDisabled, None,
                  None, FALSE, None, FALSE, FALSE)
    /\ UNCHANGED << etags, elem_to_elems >>

\* The end of a partition call that stops before the library runs; after is
\* the cache as the call leaves it, built whether the call computed it.
PartitionPanic(op, n_parts, err, after, built) ==
    /\ ret' = Ret(op, n_parts, "Panic", err, None, None,
                  built, None, AnyTagNot1(etags), FALSE)
    /\ elem_to_elems' = after
    /\ UNCHANGED etags

\* The end of a partition call whose library call answered `out`; failStatus
\* is how the call returns when the library did not produce labels.
PartitionEnd(op, n_parts, out, failStatus, failErr, after, built) ==
    /\ elem_to_elems' = after
    /\ IF out.kind = "ok"
       THEN /\ etags' = AssignTags(out.part)
            /\ ret' = Ret(op, n_parts, "Ok", "", None, Some(out),
                          built, after, AnyTagNot1(etags),
                          ret.op = op /\ ret.n_parts = n_parts /\ ret.status = "Ok")
       ELSE /\ UNCHANGED etags
            /\ ret' = Ret(op, n_parts, failStatus, failErr, None, Some(out),
                          built, after, AnyTagNot1(etags), FALSE)

\* #[cfg(feature = "scotch")]
partition_scotch_enabled(n_parts) ==
    LET built == NeedsBuild(elem_to_elems)
        after == IF built THEN ComputedElemToElems ELSE elem_to_elems
    IN IF IsNone(after)
       THEN PartitionPanic("partition_scotch", n_parts, PanicUnwrapE2e, after, built)
       ELSE LET e2e == Unwrap(after)
                xadj == ConvertAll(e2e.ptr)
                adjncy == ConvertAll(e2e.indices)
            IN IF IsNone(xadj) \/ IsNone(adjncy)
               THEN PartitionPanic("partition_scotch", n_parts, PanicTryInto,
                                   after, built)
               ELSE \E out \in BackendAnswers("partition_scotch", n_parts, n_elems) :
                       IF out.kind = "graph_error"
                       THEN PartitionEnd("partition_scotch", n_parts, out,
                                         "Panic", PanicScotchGraph, after, built)
                       ELSE PartitionEnd("partition_scotch", n_parts, out,
                                         "Err", ErrScotch, after, built)

partition_scotch(n_parts) ==
    /\ Running
    /\ IF scotch THEN partition_scotch_enabled(n_parts)
                 ELSE partition_scotch_disabled(n_parts)
    /\ UNCHANGED << scotch, metis, deterministic, mesh, faces_to_elems >>

\* ------------------------------------------------------ partition_metis
\* #[cfg(not(feature = "metis"))]
partition_metis_disabled(n_parts) ==
    /\ ret' = Ret("partition_metis", n_parts, "Err", ErrMetisDisabled, None,
                  None, FALSE, None, FALSE, FALSE)
    /\ UNCHANGED << etags, elem_to_elems >>

\* #[cfg(feature = "metis")]
partition_metis_enabled(n_parts) ==
    LET built == NeedsBuild(elem_to_elems)
        after == IF built THEN ComputedElemToElems ELSE elem_to_elems
    IN IF IsNone(after)
       THEN PartitionPanic("partition_metis", n_parts, PanicUnwrapE2e, after, built)
       ELSE LET e2e == Unwrap(after)
                xadj == ConvertAll(e2e.ptr)
                adjncy == ConvertAll(e2e.indices)
            IN IF IsNone(xadj) \/ IsNone(adjncy)
               THEN PartitionPanic("partition_metis", n_parts, PanicTryInto,
                                   after, built)
               ELSE \E out \in BackendAnswers("partition_metis", n_parts, n_elems) :
                       PartitionEnd("partition_metis", n_parts, out,
                                    "Panic", PanicMetis, after, built)

partition_metis(n_parts) ==
    /\ Running
    /\ IF metis THEN partition_metis_enabled(n_parts)
                ELSE partition_metis_disabled(n_parts)
    /\ UNCHANGED << scotch, metis, deterministic, mesh, faces_to_elems >>

\* ---------------------------------------------------- partition_quality
\* partition_quality computing the connectivity it finds absent.
partition_quality_computing ==
    /\ Running
    /\ faces_to_elems' = Some(mesh.faces)
    /\ ret' = PlainRet("partition_quality", "Ok", "",
                       Some(QualityValue(mesh.faces, etags)))
    /\ UNCHANGED << scotch, metis, deterministic, mesh, etags, elem_to_elems >>

\* pub fn partition_quality(&self) -> Result<f64>
partition_quality ==
    /\ Running
    /\ IF IsNone(faces_to_elems)
       THEN ret' = PlainRet("partition_quality", "Err", ErrNoFaceToElems, None)
       ELSE ret' = PlainRet("partition_quality", "Ok", "",
                            Some(QualityValue(Unwrap(faces_to_elems), etags)))
    /\ UNCHANGED << scotch, metis, deterministic, mesh, etags, elem_to_elems,
                    faces_to_elems >>

\* -------------------------------------------------------- specification
\* The partition counts a caller passes: the ordinary ones and the largest Idx.
NParts == (0..MaxParts) \cup { IdxMax }

TagVectors(n) == [1..n -> 1..MaxTag]

Init ==
    /\ scotch \in BOOLEAN
    /\ metis \in BOOLEAN
    /\ deterministic \in BOOLEAN
    /\ mesh \in Meshes
    /\ etags \in TagVectors(mesh.n_elems)
    /\ elem_to_elems = None
    /\ faces_to_elems = None
    /\ ret = PlainRet("new", "Ok", "", None)

Next ==
    \/ \E n_parts \in NParts : partition_scotch(n_parts)
    \/ \E n_parts \in NParts : partition_metis(n_parts)
    \/ partition_quality
    \/ compute_elem_to_elems
    \/ clear_elem_to_elems
    \/ compute_face_to_elems

Spec == Init /\ [][Next]_vars

\* ------------------------------------------------------------ properties
Compiled(op) ==
    \/ op = "partition_scotch" /\ scotch
    \/ op = "partition_metis" /\ metis

\* The labels the library returned to the last call.
Labels == Unwrap(ret.backend).part

LabelsInRange(part, n_parts) == \A i \in 1..Len(part) : part[i] \in 0..(n_parts - 1)

AllSameTag(tags) == \A i, j \in 1..Len(tags) : tags[i] = tags[j]

\* A dual graph with an offset or an index that does not fit the backend integer.
Overflows(g) ==
    \/ \E i \in 1..Len(g.ptr) : g.ptr[i] > NumMax
    \/ \E i \in 1..Len(g.indices) : g.indices[i] > NumMax

C2_DisabledBackendFailsUntouched ==
    [][ ( \/ ret'.op = "partition_scotch" /\ ~scotch
          \/ ret'.op = "partition_metis" /\ ~metis )
        => /\ ret'.status = "Err"
           /\ ret'.err = (IF ret'.op = "partition_scotch" THEN ErrScotchDisabled
                                                          ELSE ErrMetisDisabled)
           /\ ~ret'.built
           /\ etags' = etags
           /\ elem_to_elems' = elem_to_elems ]_vars

\* C2 witness: partition_scotch was called without the scotch feature on a
\* mesh with non-uniform tags and no dual graph; both are still so.
C2_Witness ==
    /\ ~scotch
    /\ ret.op = "partition_scotch"
    /\ ret.status = "Err"
    /\ ret.n_parts = 2
    /\ IsNone(elem_to_elems)
    /\ AnyTagNot1(etags)

\* C3 (as claimed): when the backend's partitioning routine fails, the call
\* returns an error as a result value and every tag keeps its value.
C3_BackendFailureReturned ==
    [][ ( /\ ret'.op \in PartitionOps
          /\ IsSome(ret'.backend)
          /\ Unwrap(ret'.backend).kind = "error" )
        => /\ ret'.status = "Err"
           /\ etags' = etags ]_vars

\* C4: partition_quality called while the face-to-element connectivity is
\* absent returns the missing-connectivity error and no value, and leaves the
\* connectivity absent.
C4_QualityNeedsFaceToElems ==
    [][ ( ret'.op = "partition_quality" /\ IsNone(faces_to_elems) )
        => /\ ret'.status = "Err"
           /\ ret'.err = ErrNoFaceToElems
           /\ IsNone(ret'.val)
           /\ IsNone(faces_to_elems') ]_vars

\* C4 witness: partition_quality has failed on a mesh that a partition call
\* has tagged (a tag above MaxTag) and whose dual graph is cached.
C4_Witness ==
    /\ ret.op = "partition_quality"
    /\ ret.status = "Err"
    /\ IsNone(faces_to_elems)
    /\ IsSome(elem_to_elems)
    /\ \E i \in 1..Len(etags) : etags[i] > MaxTag

\* C5 (as claimed, for a mesh that has elements and a count that reaches the
\* library as passed): a partition call with n_parts greater than the number
\* of elements fails instead of producing a partition, and leaves the tags
\* unchanged.
C5_InvalidPartitionCountRejected ==
    [][ ( /\ ret'.op \in PartitionOps
          /\ Compiled(ret'.op)
          /\ n_elems >= 1
          /\ ret'.n_parts > n_elems
          /\ AsNum(ret'.n_parts) = ret'.n_parts )
        => /\ ret'.status /= "Ok"
           /\ etags' = etags ]_vars

\* C6 (as claimed): when an offset or an index of the dual graph does not fit
\* the backend integer, the partition call returns an error as a result value
\* and leaves the tags unchanged.
C6_IndexConversionReturned ==
    [][ ( /\ ret'.op \in PartitionOps
          /\ Compiled(ret'.op)
          /\ Overflows(DualGraph(mesh)) )
        => /\ ret'.status = "Err"
           /\ etags' = etags ]_vars

\* C7: with the face-to-element connectivity present and at least one face,
\* partition_quality returns a value between 0 and 1, and 0 when all elements
\* carry the same tag.
C7_QualityInUnitInterval ==
    ( /\ ret.op = "partition_quality"
      /\ IsSome(faces_to_elems)
      /\ Len(Unwrap(faces_to_elems)) >= 1 )
    => /\ ret.status = "Ok"
       /\ IsSome(ret.val)
       /\ LET q == Unwrap(ret.val)
          IN /\ q[2] > 0
             /\ 0 <= q[1]
             /\ q[1] <= q[2]
             /\ AllSameTag(etags) => q[1] = 0

\* C7 witness: partition_quality has returned 0 for a mesh of three elements
\* that all carry tag 2.
C7_Witness ==
    /\ ret.op = "partition_quality"
    /\ ret.status = "Ok"
    /\ n_elems = 3
    /\ etags = << 2, 2, 2 >>
    /\ ret.val = Some(<< 0, 1 >>)

\* C8: with a deterministic backend, a successful partition call that follows
\* a successful call of the same operation with the same n_parts leaves the
\* cut ratio as it was after the first call.
C8_RepeatedPartitionSameQuality ==
    [][ ( /\ deterministic
          /\ ret.op \in PartitionOps
          /\ ret.status = "Ok"
          /\ ret'.op = ret.op
          /\ ret'.n_parts = ret.n_parts
          /\ ret'.status = "Ok" )
        => QualityValue(mesh.faces, etags') = QualityValue(mesh.faces, etags) ]_vars

\* C8 witness: a deterministic backend has partitioned the mesh twice in a
\* row with the same n_parts, and the partition cuts a face.
C8_Witness ==
    /\ deterministic
    /\ ret.op \in PartitionOps
    /\ ret.status = "Ok"
    /\ ret.repeat
    /\ ret.n_parts = 2
    /\ QualityValue(mesh.faces, etags) = << 1, 5 >>

\* C9: with the face-to-element connectivity present, partition_quality
\* returns the number of faces with exactly two incident elements of different
\* tags, divided by the number of all faces, boundary faces included.
C9_QualityIsCutOverAllFaces ==
    ( ret.op = "partition_quality" /\ IsSome(faces_to_elems) )
    => LET f2e == Unwrap(faces_to_elems)
           cut == { i \in 1..Len(f2e) :
                       /\ Len(f2e[i]) = 2
                       /\ etags[f2e[i][1] + 1] /= etags[f2e[i][2] + 1] }
       IN /\ ret.status = "Ok"
          /\ ret.val = Some(FDiv(Cardinality(cut), Len(f2e)))

\* C9 witness: partition_quality has returned 2/7 for the strip of three
\* elements: both interior faces are cut, the five boundary faces count in
\* the total only.
C9_Witness ==
    /\ ret.op = "partition_quality"
    /\ ret.status = "Ok"
    /\ mesh.faces = StripFaces(3)
    /\ etags = << 1, 2, 1 >>
    /\ ret.val = Some(<< 2, 7 >>)

\* C10: a partition call to a compiled-in backend builds the dual graph when
\* it finds it absent, does not rebuild it when it finds it cached, and hands
\* the backend the cached graph.
C10_DualGraphBuiltOnce ==
    [][ ( ret'.op \in PartitionOps /\ Compiled(ret'.op) )
        => /\ IsNone(elem_to_elems)
              => ret'.built /\ elem_to_elems' = Some(DualGraph(mesh))
           /\ IsSome(elem_to_elems)
              => ~ret'.built /\ elem_to_elems' = elem_to_elems
           /\ IsSome(ret'.backend)
              => IsSome(ret'.graph) /\ ret'.graph = elem_to_elems' ]_vars

\* C10 witness: a second partition call in a row has succeeded without
\* building the dual graph, which is cached.
C10_Witness ==
    /\ ret.op \in PartitionOps
    /\ ret.status = "Ok"
    /\ ret.repeat
    /\ ~ret.built
    /\ elem_to_elems = Some(DualGraph(mesh))
    /\ n_elems = 2

====
